---- MODULE Spec2Model ----
(***************************************************************************)
(* A model of radparse's parser engine (src/parser.ts, src/either.ts):     *)
(* the Either result type, source-position and parser-state tracking, the  *)
(* combinators of class Parser and the generator sugar Parser.gen.         *)
(*                                                                         *)
(* Strings are sequences of characters drawn from Chars; every character   *)
(* of Chars is one UTF-16 code unit, so that `.length`, `.slice` and the   *)
(* `for ... of` loop of updatePosition count the same units.               *)
(* An optional argument (`consumed?: string`, `string | null`) is a        *)
(* sequence of length at most one: <<>> when absent, <<v>> when given.     *)
(***************************************************************************)
EXTENDS Integers, Sequences, FiniteSets, TLC

VARIABLES
    \* --- Parser.run on one Parser value ---
    parser,        \* the Parser value under test (its combinator tree)
    iterators,     \* state of the generator object captured by each Parser.gen
    input,         \* argument of the latest run(input)
    result,        \* what the latest run returned (<<>> before any run)
    trace,         \* primitives run and callbacks invoked by the latest run
    runs,          \* number of run() calls made on the value so far
    itersBefore,   \* `iterators` as they were when the latest run started
    \* --- a chain of consumeString calls from initialState ---
    original,      \* the input given to initialState
    state,         \* the current ParserState
    prevState,     \* the state the latest consumeString was given
    consumedArg,   \* the latest `consumed` argument (optional)
    steps,         \* number of consumeString calls so far
    overran,       \* some call was given more characters than were left
    \* --- one call of updatePosition ---
    pos,           \* argument pos
    consumed,      \* argument consumed
    posArg,        \* the pos object as it is after the call
    posOut,        \* the returned position (optional)
    \* --- one call of updateState ---
    oldState,      \* argument oldState
    newState,      \* argument newState
    updated        \* the returned state (optional)

runVars     == <<parser, iterators, input, result, trace, runs, itersBefore>>
consumeVars == <<original, state, prevState, consumedArg, steps, overran>>
posVars     == <<pos, consumed, posArg, posOut>>
updateVars  == <<oldState, newState, updated>>
vars        == <<runVars, consumeVars, posVars, updateVars>>

(***************************************************************************)
(* Bounds of the model.                                                    *)
(***************************************************************************)
MaxInput    == 2   \* longest input handed to Parser.run
MaxRuns     == 2   \* run() calls on one Parser value
MaxText     == 3   \* longest input / consumed text of the tracking functions
MaxConsumed == 2   \* longest `consumed` argument in a consumeString chain
MaxSteps    == 2   \* consumeString calls in a chain
MaxLine     == 2   \* largest line of a starting position
MaxColumn   == 2   \* largest column of a starting position
MaxOffset   == 1   \* largest offset of a starting position

Chars == {"a", "b", "\n"}

StringsUpTo(n) == UNION {[1..k -> Chars] : k \in 0..n}

Min(a, b) == IF a < b THEN a ELSE b
Max(a, b) == IF a > b THEN a ELSE b

(***************************************************************************)
(* String.prototype.slice(start, end) as parser.ts uses it: a negative     *)
(* index counts from the end, both are clamped to the string, and an       *)
(* empty range gives "".                                                   *)
(***************************************************************************)
sliceIndex(s, i) == IF i < 0 THEN Max(Len(s) + i, 0) ELSE Min(i, Len(s))

slice(s, start, end) ==
    LET from == sliceIndex(s, start)
        to   == sliceIndex(s, end)
    IN  IF from >= to THEN <<>> ELSE SubSeq(s, from + 1, to)

sliceFrom(s, start) == slice(s, start, Len(s))

(***************************************************************************)
(* Position and state tracking (parser.ts, 248-306).                       *)
(***************************************************************************)
SourcePosition(line, column, offset) ==
    [line |-> line, column |-> column, offset |-> offset]

ParserState(in, p) == [input |-> in, pos |-> p]

initialState(in) == ParserState(in, SourcePosition(1, 1, 0))

\* One iteration of the loop of updatePosition, on the locals line/column/offset.
updatePositionChar_noReset(p, char) ==
    IF char = "\n"
    THEN SourcePosition(p.line + 1, p.column + 1, p.offset + 1)
    ELSE SourcePosition(p.line, p.column + 1, p.offset + 1)

updatePositionChar(p, char) ==
    IF char = "\n"
    THEN SourcePosition(p.line + 1, 1, p.offset + 1)
    ELSE SourcePosition(p.line, p.column + 1, p.offset + 1)

RECURSIVE updatePositionLoop(_, _)
updatePositionLoop(p, text) ==
    IF text = <<>> THEN p
    ELSE updatePositionLoop(updatePositionChar(p, Head(text)), Tail(text))

updatePosition(p, text) ==
    LET locals == updatePositionLoop(SourcePosition(p.line, p.column, p.offset), text)
    IN  SourcePosition(locals.line, locals.column, locals.offset)

updateState_keepPos(old, new) ==
    LET text == slice(old.input, 0, Len(old.input) - Len(new.input))
    IN  [old EXCEPT !.input = sliceFrom(old.input, Len(text))]

updateState(old, new) ==
    LET text == slice(old.input, 0, Len(old.input) - Len(new.input))
    IN  [old EXCEPT !.input = sliceFrom(old.input, Len(text)),
                    !.pos   = updatePosition(old.pos, text)]

\* `consumed ?? ""` and `consumed?.length ?? 0`
orEmpty(opt) == IF opt = <<>> THEN <<>> ELSE opt[1]

consumeString_noSlice(st, opt) ==
    ParserState(st.input, updatePosition(st.pos, orEmpty(opt)))

consumeString(st, opt) ==
    LET newPos == updatePosition(st.pos, orEmpty(opt))
    IN  ParserState(sliceFrom(st.input, Len(orEmpty(opt))), newPos)

(***************************************************************************)
(* either.ts: the two-variant result.                                      *)
(***************************************************************************)
left(l)  == [tag |-> "Left", left |-> l]
right(r) == [tag |-> "Right", right |-> r]

isLeft(either)  == either.tag = "Left"
isRight(either) == either.tag = "Right"

(***************************************************************************)
(* Values a parser can produce.  Every value is a record, so that values   *)
(* of different shapes can be compared.                                    *)
(***************************************************************************)
VStr(s)       == [str |-> s]                 \* a string
Undefined     == [undefined |-> TRUE]        \* JavaScript's undefined
VPair(a, b)   == [fst |-> a, snd |-> b]      \* `[a, b] as const`
VRecord(f)    == [fields |-> f]              \* an object: keys to values
EmptyRecord   == VRecord([key \in {} |-> Undefined])

\* `{ ...(value as object), [k]: b }`
spreadWith_dropRest(value, k, b) == VRecord([key \in {k} |-> b])

spreadWith(value, k, b) ==
    VRecord([key \in (DOMAIN value.fields) \cup {k} |->
                IF key = k THEN b ELSE value.fields[key]])

(***************************************************************************)
(* class Parser.  A Parser value is the tree of combinator calls that      *)
(* built it: each node stands for the closure `_run` the call created and  *)
(* names what that closure captured (`this`, the callback, the message).   *)
(***************************************************************************)
ParserError(message, expected, p) ==
    [message |-> message, expected |-> expected, pos |-> p]

\* private errorMessage: string | null = null; nothing ever assigns it.
errorMessage(this) == <<>>

Parser_succeed(value, st, opt) == right(<<value, consumeString(st, opt)>>)

Parser_error(message, expected, p) == left(ParserError(message, expected, p))

Parser_fail(message, expected) ==
    [op |-> "fail", message |-> message, expected |-> expected]

Parser_pure(a) == [op |-> "pure", a |-> a]

Parser_Do == Parser_pure(EmptyRecord)

error(this, message)  == [op |-> "error", this |-> this, message |-> message]
error2(this, onError) == [op |-> "error2", this |-> this, onError |-> onError]
map(this, f)          == [op |-> "map", this |-> this, f |-> f]
flatMap(this, f)      == [op |-> "flatMap", this |-> this, f |-> f]
zip(this, parserB)    == [op |-> "zip", this |-> this, parserB |-> parserB]
bind(this, k, other)  == [op |-> "bind", this |-> this, k |-> k, other |-> other]

\* A primitive recognizer a caller builds with `new Parser(fn)`:
\* it matches the one character ch at the front of the input.
lit(ch) == [op |-> "lit", ch |-> ch]

\* `x instanceof Parser`
instanceofParser(x) == "op" \in DOMAIN x

(***************************************************************************)
(* Generator functions handed to Parser.gen, by name.  GenYields is the    *)
(* number of `yield*` the body executes, GenYield the parser the k-th one  *)
(* yields given the values the earlier ones received, GenReturn what the   *)
(* body returns.                                                           *)
(*   ab:            a = yield* lit("a");                                   *)
(*                  b = yield* (a === "a" ? lit("b") : lit("a"));          *)
(*                  return [a, b]                                          *)
(*   failsSecond:   a = yield* lit("a"); yield* fail("stop", ["never"]);   *)
(*                  b = yield* lit("b"); return [a, b]                     *)
(*   returnsParser: yield* lit("a"); return lit("b")                       *)
(*   noYield:       return "a"                                             *)
(***************************************************************************)
Generators == {"ab", "failsSecond", "returnsParser", "noYield"}

GenYields(g) ==
    CASE g = "ab"            -> 2
      [] g = "failsSecond"   -> 3
      [] g = "returnsParser" -> 1
      [] g = "noYield"       -> 0

GenYield(g, k, vals) ==
    CASE g = "ab" /\ k = 1          -> lit("a")
      [] g = "ab" /\ k = 2          ->
            IF vals[1] = VStr("a") THEN lit("b") ELSE lit("a")
      [] g = "failsSecond" /\ k = 1 -> lit("a")
      [] g = "failsSecond" /\ k = 2 -> Parser_fail(<<"stop">>, <<"never">>)
      [] g = "failsSecond" /\ k = 3 -> lit("b")
      [] g = "returnsParser"        -> lit("a")

GenReturn(g, vals) ==
    CASE g = "ab"            -> VPair(vals[1], vals[2])
      [] g = "failsSecond"   -> VPair(vals[1], vals[3])
      [] g = "returnsParser" -> lit("b")
      [] g = "noYield"       -> VStr("a")

(***************************************************************************)
(* The generator object `iterator` that Parser.gen creates once and that   *)
(* every callback it builds closes over.  `at` is the yield the body is    *)
(* suspended at (0: not started), `vals` the values sent in so far.        *)
(***************************************************************************)
NewIterator == [status |-> "created", at |-> 0, vals |-> <<>>]

IterResult(done, value, it) == [done |-> done, value |-> value, iterator |-> it]

\* iterator.next(sent)
IteratorNext(g, it, sent) ==
    IF it.status = "completed"
    THEN IterResult(TRUE, Undefined, it)
    ELSE LET vals == IF it.status = "created" THEN <<>> ELSE Append(it.vals, sent)
         IN  IF it.at < GenYields(g)
             THEN IterResult(FALSE, GenYield(g, it.at + 1, vals),
                             [status |-> "suspended", at |-> it.at + 1, vals |-> vals])
             ELSE IterResult(TRUE, GenReturn(g, vals),
                             [status |-> "completed", at |-> it.at, vals |-> vals])

genCallback(g) == [fn |-> "genStep", gen |-> g]

gen_run_alwaysPure(g, st) ==
    IF st.done THEN Parser_pure(st.value) ELSE flatMap(st.value, genCallback(g))

\* The inner function `run(state)` of Parser.gen.
gen_run(g, st) ==
    IF st.done
    THEN IF instanceofParser(st.value) THEN st.value ELSE Parser_pure(st.value)
    ELSE flatMap(st.value, genCallback(g))

\* Parser.gen(f): the Parser it returns and the iterator it leaves behind.
Parser_gen(g) ==
    LET first == IteratorNext(g, NewIterator, Undefined)
    IN  [parser |-> gen_run(g, first), iterator |-> first.iterator]

(***************************************************************************)
(* Callbacks handed to the combinators, by name.                           *)
(***************************************************************************)
\* f of map: a value to a value.
ValueFns == {[fn |-> "twice"], [fn |-> "toRecord"]}

ApplyValueFn(f, v) ==
    CASE f.fn = "twice"    -> VPair(v, v)
      [] f.fn = "toRecord" -> spreadWith(EmptyRecord, "first", v)

\* onError of error2: a ParserError to a message.
ApplyOnError(onError, err) == <<"wrapped">> \o err.message \o err.expected

\* f of flatMap, other of bind: a value to a Parser.  The callback of
\* Parser.gen also advances the iterator it closes over.
chainCallback(g, k, vals) == [fn |-> "chain", gen |-> g, k |-> k, vals |-> vals]

genLast(g, vals) ==
    IF instanceofParser(GenReturn(g, vals))
    THEN GenReturn(g, vals) ELSE Parser_pure(GenReturn(g, vals))

ApplyParserFn(f, v, its) ==
    CASE f.fn = "pure"       -> [parser |-> Parser_pure(v), iters |-> its]
      [] f.fn = "alwaysFail" ->
            [parser |-> Parser_fail(<<"boom">>, <<"x">>), iters |-> its]
      [] f.fn = "next"       ->
            [parser |-> IF v = VStr("a") THEN lit("b") ELSE lit("a"), iters |-> its]
      [] f.fn = "fromRecord" ->
            [parser |-> IF "x" \in DOMAIN v.fields /\ v.fields["x"] = VStr("a")
                        THEN lit("b") ELSE lit("a"),
             iters  |-> its]
      [] f.fn = "genStep"    ->
            LET nx == IteratorNext(f.gen, its[f.gen], v)
            IN  [parser |-> gen_run(f.gen, nx),
                 iters  |-> [its EXCEPT ![f.gen] = nx.iterator]]
      [] f.fn = "chain"      ->
            LET vals == Append(f.vals, v)
            IN  [parser |-> IF f.k < GenYields(f.gen)
                            THEN flatMap(GenYield(f.gen, f.k + 1, vals),
                                         chainCallback(f.gen, f.k + 1, vals))
                            ELSE genLast(f.gen, vals),
                 iters  |-> its]

(***************************************************************************)
(* Running a Parser: `_run(state)` of each node.  An outcome holds the     *)
(* ParserResult, the iterators as the call leaves them, and the trace of   *)
(* what the call did: [run |-> p, at |-> st] for a primitive (lit, pure,   *)
(* fail) run on st, [call |-> f, arg |-> v] for a callback invoked on v.   *)
(***************************************************************************)
Outcome(res, its, tr) == [result |-> res, iters |-> its, trace |-> tr]

Ran(this, st)  == <<[run |-> this, at |-> st]>>
Called(f, arg) == <<[call |-> f, arg |-> arg]>>

RECURSIVE _run(_, _, _)

lit_run(this, st, its) ==
    Outcome(IF st.input # <<>> /\ Head(st.input) = this.ch
            THEN Parser_succeed(VStr(this.ch), st, << <<this.ch>> >>)
            ELSE Parser_error(<<"expected", this.ch>>, <<this.ch>>, st.pos),
            its, Ran(this, st))

pure_run_reset(this, st, its) ==
    Outcome(right(<<this.a, initialState(st.input)>>), its, Ran(this, st))

pure_run(this, st, its) ==
    Outcome(right(<<this.a, st>>), its, Ran(this, st))

fail_run_atStart(this, st, its) ==
    Outcome(Parser_error(this.message, this.expected, initialState(st.input).pos),
            its, Ran(this, st))

fail_run(this, st, its) ==
    Outcome(Parser_error(this.message, this.expected, st.pos), its, Ran(this, st))

error_run_dropExpected(this, st, its) ==
    LET r == _run(this.this, st, its)
    IN  IF isLeft(r.result)
        THEN [r EXCEPT !.result =
                Parser_error(this.message, <<>>, r.result.left.pos)]
        ELSE r

error_run(this, st, its) ==
    LET r == _run(this.this, st, its)
    IN  IF isLeft(r.result)
        THEN [r EXCEPT !.result =
                Parser_error(this.message, r.result.left.expected, r.result.left.pos)]
        ELSE r

error2_run(this, st, its) ==
    LET r == _run(this.this, st, its)
    IN  IF isLeft(r.result)
        THEN Outcome(Parser_error(ApplyOnError(this.onError, r.result.left),
                                  r.result.left.expected, r.result.left.pos),
                     r.iters, r.trace \o Called(this.onError, r.result.left))
        ELSE r

\* The substitution map, flatMap and bind make when `this.errorMessage` is set.
overridden(this, r) ==
    [r EXCEPT !.result = Parser_error(errorMessage(this)[1],
                                      r.result.left.expected, r.result.left.pos)]

map_run(this, st, its) ==
    LET r == _run(this.this, st, its)
    IN  IF isLeft(r.result) /\ errorMessage(this.this) # <<>>
        THEN overridden(this.this, r)
        ELSE IF isLeft(r.result)
        THEN [r EXCEPT !.result = left(r.result.left)]
        ELSE LET value == r.result.right[1]
                 next  == r.result.right[2]
             IN  Outcome(right(<<ApplyValueFn(this.f, value), next>>),
                         r.iters, r.trace \o Called(this.f, value))

flatMap_run_retry(this, st, its) ==
    LET r == _run(this.this, st, its)
    IN  IF isLeft(r.result)
        THEN LET k  == ApplyParserFn(this.f, Undefined, r.iters)
                 r2 == _run(k.parser, st, k.iters)
             IN  Outcome(r2.result, r2.iters,
                         r.trace \o Called(this.f, Undefined) \o r2.trace)
        ELSE LET value == r.result.right[1]
                 next  == r.result.right[2]
                 k     == ApplyParserFn(this.f, value, r.iters)
                 r2    == _run(k.parser, next, k.iters)
             IN  Outcome(r2.result, r2.iters,
                         r.trace \o Called(this.f, value) \o r2.trace)

flatMap_run(this, st, its) ==
    LET r == _run(this.this, st, its)
    IN  IF isLeft(r.result) /\ errorMessage(this.this) # <<>>
        THEN overridden(this.this, r)
        ELSE IF isLeft(r.result)
        THEN [r EXCEPT !.result = left(r.result.left)]
        ELSE LET value == r.result.right[1]
                 next  == r.result.right[2]
                 k     == ApplyParserFn(this.f, value, r.iters)
                 r2    == _run(k.parser, next, k.iters)
             IN  Outcome(r2.result, r2.iters,
                         r.trace \o Called(this.f, value) \o r2.trace)

zip_run(this, st, its) ==
    LET r == _run(this.this, st, its)
    IN  IF isLeft(r.result)
        THEN [r EXCEPT !.result = left(r.result.left)]
        ELSE LET a     == r.result.right[1]
                 restA == r.result.right[2]
                 r2    == _run(this.parserB, restA, r.iters)
             IN  IF isLeft(r2.result)
                 THEN Outcome(left(r2.result.left), r2.iters, r.trace \o r2.trace)
                 ELSE Outcome(right(<<VPair(a, r2.result.right[1]), r2.result.right[2]>>),
                              r2.iters, r.trace \o r2.trace)

bind_run(this, st, its) ==
    LET r == _run(this.this, st, its)
    IN  IF isLeft(r.result) /\ errorMessage(this.this) # <<>>
        THEN overridden(this.this, r)
        ELSE IF isLeft(r.result)
        THEN [r EXCEPT !.result = left(r.result.left)]
        ELSE LET value  == r.result.right[1]
                 next   == r.result.right[2]
                 k      == IF instanceofParser(this.other)
                           THEN [parser |-> this.other, iters |-> r.iters]
                           ELSE ApplyParserFn(this.other, value, r.iters)
                 called == IF instanceofParser(this.other)
                           THEN <<>> ELSE Called(this.other, value)
                 r2     == _run(k.parser, next, k.iters)
             IN  IF isLeft(r2.result)
                 THEN Outcome(left(r2.result.left), r2.iters,
                              r.trace \o called \o r2.trace)
                 ELSE Outcome(right(<<spreadWith(value, this.k, r2.result.right[1]),
                                      r2.result.right[2]>>),
                              r2.iters, r.trace \o called \o r2.trace)

_run(this, st, its) ==
    CASE this.op = "lit"     -> lit_run(this, st, its)
      [] this.op = "pure"    -> pure_run(this, st, its)
      [] this.op = "fail"    -> fail_run(this, st, its)
      [] this.op = "error"   -> error_run(this, st, its)
      [] this.op = "error2"  -> error2_run(this, st, its)
      [] this.op = "map"     -> map_run(this, st, its)
      [] this.op = "flatMap" -> flatMap_run(this, st, its)
      [] this.op = "zip"     -> zip_run(this, st, its)
      [] this.op = "bind"    -> bind_run(this, st, its)

\* Parser.run(input)
run(this, in, its) ==
    LET r == _run(this, initialState(in), its)
    IN  IF isRight(r.result) THEN r
        ELSE IF errorMessage(this) # <<>> THEN overridden(this, r)
        ELSE r

(***************************************************************************)
(* The Parser values and inputs the model draws from.                      *)
(***************************************************************************)
Inputs == StringsUpTo(MaxInput)

Custom    == <<"custom">>
Describe  == [fn |-> "describe"]
ParserFns == {[fn |-> "pure"], [fn |-> "alwaysFail"], [fn |-> "next"]}

GenParsers == {Parser_gen(g).parser : g \in Generators}

Primitives ==
    {lit("a"), lit("\n"), Parser_pure(VStr("a")),
     Parser_fail(<<"boom">>, <<"x", "y">>), Parser_fail(<<"bare">>, <<>>)}

Receivers ==
    Primitives \cup GenParsers \cup {zip(lit("a"), lit("b")), zip(lit("a"), lit("\n"))}

Seconds == {lit("b"), Parser_fail(<<"boom">>, <<"x">>), Parser_pure(VStr("b"))}

RecordReceivers ==
    {Parser_Do, bind(Parser_Do, "x", lit("a")), bind(Parser_Do, "x", lit("\n")),
     bind(bind(Parser_Do, "x", lit("a")), "y", lit("b")),
     Parser_fail(<<"boom">>, <<"x", "y">>), map(lit("a"), [fn |-> "toRecord"])}

Others == Seconds \cup {lit("a"), [fn |-> "fromRecord"]}

Parsers ==
    Receivers
    \cup {map(A, f) : A \in Receivers, f \in ValueFns}
    \cup {flatMap(A, f) : A \in Receivers, f \in ParserFns}
    \cup {zip(A, B) : A \in Receivers, B \in Seconds}
    \cup {bind(R, k, other) : R \in RecordReceivers, k \in {"x", "y"}, other \in Others}
    \cup {error(A, Custom) : A \in Receivers}
    \cup {error2(A, Describe) : A \in Receivers}
    \cup {map(error(A, Custom), [fn |-> "twice"]) : A \in Receivers}
    \cup {flatMap(error(A, Custom), [fn |-> "next"]) : A \in Receivers}
    \cup {bind(error(R, Custom), "y", other) : R \in RecordReceivers, other \in Others}
    \cup {map(error2(A, Describe), [fn |-> "twice"]) : A \in Receivers}

Positions ==
    {SourcePosition(l, c, o) : l \in 1..MaxLine, c \in 1..MaxColumn, o \in 0..MaxOffset}

Prefixes(s) == {SubSeq(s, 1, n) : n \in 0..Len(s)}
Suffixes(s) == {SubSeq(s, n + 1, Len(s)) : n \in 0..Len(s)}

(***************************************************************************)
(* Spec: one Parser value is built, then run(input) is called on it        *)
(* again and again.                                                        *)
(***************************************************************************)
RunIdle ==
    /\ parser = lit("a")
    /\ iterators = [g \in Generators |-> NewIterator]
    /\ input = <<>>
    /\ result = <<>>
    /\ trace = <<>>
    /\ runs = 0
    /\ itersBefore = iterators

ConsumeIdle ==
    /\ original = <<>>
    /\ state = initialState(<<>>)
    /\ prevState = state
    /\ consumedArg = <<>>
    /\ steps = 0
    /\ overran = FALSE

PosIdle ==
    /\ pos = SourcePosition(1, 1, 0)
    /\ consumed = <<>>
    /\ posArg = pos
    /\ posOut = <<>>

UpdateIdle ==
    /\ oldState = initialState(<<>>)
    /\ newState = oldState
    /\ updated = <<>>

Init ==
    /\ parser \in Parsers
    /\ iterators = [g \in Generators |-> Parser_gen(g).iterator]
    /\ input = <<>>
    /\ result = <<>>
    /\ trace = <<>>
    /\ runs = 0
    /\ itersBefore = iterators
    /\ ConsumeIdle /\ PosIdle /\ UpdateIdle

Run(in) ==
    /\ runs < MaxRuns
    /\ LET r == run(parser, in, iterators)
       IN  /\ result' = <<r.result>>
           /\ iterators' = r.iters
           /\ trace' = r.trace
    /\ input' = in
    /\ itersBefore' = iterators
    /\ runs' = runs + 1
    /\ UNCHANGED <<parser, consumeVars, posVars, updateVars>>

Next == \E in \in Inputs : Run(in)

Spec == Init /\ [][Next]_vars

(***************************************************************************)
(* SpecConsume: initialState(original), then a chain of consumeString      *)
(* calls with arbitrary `consumed` arguments.                              *)
(***************************************************************************)
ConsumedArgs == {<<>>} \cup {<<c>> : c \in StringsUpTo(MaxConsumed)}

InitConsume ==
    /\ original \in StringsUpTo(MaxText)
    /\ state = initialState(original)
    /\ prevState = state
    /\ consumedArg = <<>>
    /\ steps = 0
    /\ overran = FALSE
    /\ RunIdle /\ PosIdle /\ UpdateIdle

ConsumeString(opt) ==
    /\ steps < MaxSteps
    /\ state' = consumeString(state, opt)
    /\ prevState' = state
    /\ consumedArg' = opt
    /\ overran' = (overran \/ Len(orEmpty(opt)) > Len(state.input))
    /\ steps' = steps + 1
    /\ UNCHANGED <<original, runVars, posVars, updateVars>>

NextConsume == \E opt \in ConsumedArgs : ConsumeString(opt)

SpecConsume == InitConsume /\ [][NextConsume]_vars

(***************************************************************************)
(* SpecPos: updatePosition(pos, consumed) called on drawn arguments.       *)
(***************************************************************************)
InitPos ==
    /\ pos \in Positions
    /\ consumed \in StringsUpTo(MaxText)
    /\ posArg = pos
    /\ posOut = <<>>
    /\ RunIdle /\ ConsumeIdle /\ UpdateIdle

UpdatePositionCall ==
    /\ posOut = <<>>
    /\ posOut' = <<updatePosition(pos, consumed)>>
    /\ pos' = pos          \* the fields are copied into locals; pos is not written
    /\ UNCHANGED <<consumed, posArg, runVars, consumeVars, updateVars>>

NextPos == UpdatePositionCall

SpecPos == InitPos /\ [][NextPos]_vars

(***************************************************************************)
(* SpecUpdate: updateState(oldState, newState) called on drawn arguments   *)
(* that meet its precondition: newState.input is a suffix of               *)
(* oldState.input.                                                         *)
(***************************************************************************)
NewStates(old) ==
    {ParserState(rest, p) :
        rest \in Suffixes(old.input),
        p \in {old.pos, initialState(old.input).pos}}
    \cup {consumeString(old, <<c>>) : c \in Prefixes(old.input)}

InitUpdate ==
    /\ oldState \in {ParserState(in, p) : in \in StringsUpTo(MaxText), p \in Positions}
    /\ newState \in NewStates(oldState)
    /\ updated = <<>>
    /\ RunIdle /\ ConsumeIdle /\ PosIdle

UpdateStateCall ==
    /\ updated = <<>>
    /\ updated' = <<updateState(oldState, newState)>>
    /\ UNCHANGED <<oldState, newState, runVars, consumeVars, posVars>>

NextUpdate == UpdateStateCall

SpecUpdate == InitUpdate /\ [][NextUpdate]_vars

(***************************************************************************)
(* Properties.                                                             *)
(***************************************************************************)
HasRun  == result # <<>>
Start   == initialState(input)

\* What a sub-parser does on the state, and from the iterators, the latest
\* run started with.
Sub(p)  == _run(p, Start, itersBefore)

\* The primitives a run executed, in order, with the state each was given.
RunsOf(tr) == SelectSeq(tr, LAMBDA e : "run" \in DOMAIN e)

\* C1: run(input) called again on the same Parser value with the same input
\* returns a Result equal to the one it returned before.
C1_RunIsRepeatable ==
    [][(runs >= 1 /\ runs' = runs + 1 /\ input' = input) => result' = result]_vars

\* C2: when A fails with error e, A.map(f), A.flatMap(f), A.zip(B) and
\* A.bind(k, other) fail with exactly e, and nothing but A was run or invoked:
\* no continuation, no retry.
C2_FailFast ==
    (HasRun /\ parser.op \in {"map", "flatMap", "zip", "bind"}) =>
        LET a == Sub(parser.this)
        IN  isLeft(a.result) =>
                /\ result[1] = a.result
                /\ trace = a.trace
                /\ iterators = a.iters

C2_Witness ==
    /\ HasRun
    /\ parser.op = "bind"
    /\ ~instanceofParser(parser.other)
    /\ isLeft(Sub(parser.this).result)
    /\ result[1].left.pos.offset = 1

\* C3: P.error(m) and P.error2(fn) replace only the message of P's failure
\* (expected and pos are P's) and return P's success unchanged; so does an
\* overridden parser wrapped by map, flatMap or bind when the failure is P's.
WithMessage(p, msg) ==
    left(ParserError(msg, p.result.left.expected, p.result.left.pos))

C3_OverrideChangesOnlyMessage ==
    HasRun =>
        /\ parser.op = "error" =>
              LET p == Sub(parser.this)
              IN  result[1] = IF isLeft(p.result)
                              THEN WithMessage(p, parser.message) ELSE p.result
        /\ parser.op = "error2" =>
              LET p == Sub(parser.this)
              IN  result[1] = IF isLeft(p.result)
                              THEN WithMessage(p, ApplyOnError(parser.onError, p.result.left))
                              ELSE p.result
        /\ (parser.op \in {"map", "flatMap", "bind"} /\ parser.this.op = "error") =>
              LET p == Sub(parser.this.this)
              IN  isLeft(p.result) => result[1] = WithMessage(p, parser.this.message)
        /\ (parser.op = "map" /\ parser.this.op = "error2") =>
              LET p == Sub(parser.this.this)
              IN  isLeft(p.result) =>
                    result[1] = WithMessage(p, ApplyOnError(parser.this.onError, p.result.left))

C3_Witness ==
    /\ HasRun
    /\ parser.op = "error"
    /\ isLeft(Sub(parser.this).result)
    /\ result[1].left.message = Custom
    /\ result[1].left.expected = <<"b">>
    /\ result[1].left.pos = SourcePosition(1, 2, 1)

\* C4: the first run of Parser.gen(f) returns what the chain
\* P1.flatMap(v1 => P2(v1).flatMap(... => last)) returns, runs the same
\* parsers on the same states, each on the state the previous one left, and
\* runs nothing after a yielded parser failed.
Chain(g) ==
    IF GenYields(g) = 0 THEN genLast(g, <<>>)
    ELSE flatMap(GenYield(g, 1, <<>>), chainCallback(g, 1, <<>>))

Threaded(rt) ==
    \A i \in 1..(Len(rt) - 1) :
        LET o == _run(rt[i].run, rt[i].at, itersBefore).result
        IN  isRight(o) /\ rt[i + 1].at = o.right[2]

C4_GenIsFlatMapChain ==
    runs = 1 =>
        \A g \in Generators :
            parser = Parser_gen(g).parser =>
                LET c == _run(Chain(g), Start, itersBefore)
                IN  /\ result[1] = c.result
                    /\ RunsOf(trace) = RunsOf(c.trace)
                    /\ Threaded(RunsOf(trace))

C4_Witness ==
    /\ runs = 1
    /\ parser = Parser_gen("ab").parser
    /\ isRight(result[1])
    /\ result[1].right[1] = VPair(VStr("a"), VStr("b"))
    /\ result[1].right[2].input = <<>>

\* C5 as claimed: after any chain of consumeString calls from
\* initialState(original), whatever the consumed strings,
\* pos.offset + length(state.input) = length(original); and consumeString
\* with no argument returns its state.
NoArgReturnsState ==
    (steps > 0 /\ consumedArg = <<>>) => state = prevState

C5_OffsetInvariant_AnyConsumed ==
    /\ state.pos.offset + Len(state.input) = Len(original)
    /\ NoArgReturnsState

\* C5 as amended: the offset invariant holds as long as no call was given
\* a consumed string longer than the input that was left.
C5_OffsetInvariant ==
    /\ ~overran => state.pos.offset + Len(state.input) = Len(original)
    /\ NoArgReturnsState

C5_Witness ==
    /\ steps = 2
    /\ ~overran
    /\ consumedArg # <<>>
    /\ state.pos.offset = 3
    /\ state.pos.line = 2
    /\ state.input = <<>>

\* C6: updatePosition(p, c) has offset p.offset + length(c), line p.line plus
\* the number of newlines of c, column p.column + length(c) when c has no
\* newline and otherwise 1 + the number of characters after its last
\* newline; the empty text returns p, and p is not modified.
Newlines(c) == {i \in DOMAIN c : c[i] = "\n"}

LastNewline(c) == CHOOSE i \in Newlines(c) : \A j \in Newlines(c) : j <= i

C6_UpdatePositionReference ==
    posOut # <<>> =>
        /\ pos = posArg
        /\ posOut[1].offset = posArg.offset + Len(consumed)
        /\ posOut[1].line = posArg.line + Cardinality(Newlines(consumed))
        /\ posOut[1].column =
              IF Newlines(consumed) = {}
              THEN posArg.column + Len(consumed)
              ELSE 1 + (Len(consumed) - LastNewline(consumed))
        /\ consumed = <<>> => posOut[1] = posArg

C6_Witness ==
    /\ posOut # <<>>
    /\ consumed = <<"a", "a", "\n">>
    /\ posArg = SourcePosition(2, 2, 1)
    /\ posOut[1] = SourcePosition(3, 1, 4)

\* C7: when R succeeds with record rec and state s1, R.bind(k, other) runs
\* other (other(rec) when it is a function) on s1; if that succeeds with b
\* and s2 the result is rec plus k mapped to b, with state s2, and if it
\* fails the result is its failure.  Do().bind("x", X).bind("y", Y) holds
\* both values, Y having run on the state X left.
C7_BindAccumulates ==
    (HasRun /\ parser.op = "bind") =>
        LET r == Sub(parser.this)
        IN  isRight(r.result) =>
              LET rec == r.result.right[1]
                  s1  == r.result.right[2]
                  nextParser ==
                      IF instanceofParser(parser.other) THEN parser.other
                      ELSE ApplyParserFn(parser.other, rec, r.iters).parser
                  o   == _run(nextParser, s1, r.iters)
              IN  IF isRight(o.result)
                  THEN /\ isRight(result[1])
                       /\ DOMAIN result[1].right[1].fields =
                              (DOMAIN rec.fields) \cup {parser.k}
                       /\ result[1].right[1].fields[parser.k] = o.result.right[1]
                       /\ \A key \in (DOMAIN rec.fields) \ {parser.k} :
                              result[1].right[1].fields[key] = rec.fields[key]
                       /\ result[1].right[2] = o.result.right[2]
                  ELSE result[1] = o.result

C7_Witness ==
    /\ HasRun
    /\ parser = bind(bind(Parser_Do, "x", lit("a")), "y", lit("b"))
    /\ isRight(result[1])
    /\ DOMAIN result[1].right[1].fields = {"x", "y"}
    /\ result[1].right[1].fields["x"] = VStr("a")
    /\ result[1].right[1].fields["y"] = VStr("b")
    /\ result[1].right[2] = ParserState(<<>>, SourcePosition(1, 3, 2))

\* C8: pure(v) succeeds with v and the state it was given; pure(v).flatMap(f)
\* gives the Result of f(v), and p.flatMap(pure) gives the Result of p.
C8_PureIsIdentity ==
    HasRun =>
        /\ parser.op = "pure" => result[1] = right(<<parser.a, Start>>)
        /\ (parser.op = "flatMap" /\ parser.this.op = "pure") =>
              result[1] =
                  Sub(ApplyParserFn(parser.f, parser.this.a, itersBefore).parser).result
        /\ (parser.op = "flatMap" /\ parser.f = [fn |-> "pure"]) =>
              result[1] = Sub(parser.this).result

C8_Witness ==
    /\ HasRun
    /\ parser = flatMap(zip(lit("a"), lit("\n")), [fn |-> "pure"])
    /\ isRight(result[1])
    /\ result[1].right[2] = ParserState(<<>>, SourcePosition(2, 1, 2))

\* C9: fail(m, e) fails with m, e and the pos of the state it is run on:
\* (1, 1, 0) when run on an input, and after A in A.flatMap(_ => fail(m, e))
\* and A.zip(fail(m, e)) the pos of the state A left.
C9_FailReportsCurrentPos ==
    HasRun =>
        /\ parser.op = "fail" =>
              result[1] = left(ParserError(parser.message, parser.expected,
                                           SourcePosition(1, 1, 0)))
        /\ (parser.op = "flatMap" /\ parser.f = [fn |-> "alwaysFail"]) =>
              LET a == Sub(parser.this)
              IN  isRight(a.result) =>
                    result[1] = left(ParserError(<<"boom">>, <<"x">>,
                                                 a.result.right[2].pos))
        /\ (parser.op = "zip" /\ parser.parserB.op = "fail") =>
              LET a == Sub(parser.this)
              IN  isRight(a.result) =>
                    result[1] = left(ParserError(parser.parserB.message,
                                                 parser.parserB.expected,
                                                 a.result.right[2].pos))

C9_Witness ==
    /\ HasRun
    /\ parser = flatMap(zip(lit("a"), lit("\n")), [fn |-> "alwaysFail"])
    /\ isLeft(result[1])
    /\ result[1].left.pos = SourcePosition(2, 1, 2)

\* C10: when newState.input is a suffix of oldState.input,
\* updateState(oldState, newState) has newState's input and the position
\* updatePosition(oldState.pos, removed prefix); it returns
\* consumeString(s, c) for every prefix c of s.input, and s for (s, s).
Removed == SubSeq(oldState.input, 1, Len(oldState.input) - Len(newState.input))

C10_UpdateStateReanchors ==
    updated # <<>> =>
        /\ updated[1].input = newState.input
        /\ updated[1].pos = updatePosition(oldState.pos, Removed)
        /\ newState = consumeString(oldState, <<Removed>>) => updated[1] = newState
        /\ newState = oldState => updated[1] = oldState

C10_Witness ==
    /\ updated # <<>>
    /\ oldState = ParserState(<<"a", "\n", "b">>, SourcePosition(2, 2, 1))
    /\ newState = consumeString(oldState, << <<"a", "\n">> >>)
    /\ updated[1] = ParserState(<<"b">>, SourcePosition(3, 1, 3))

====
